---------------------------- MODULE Spec2Model ----------------------------
(***************************************************************************)
(* Model of pygeohydro's STN flood-event client                            *)
(* (src/pygeohydro/stnfloodevents.py): the list-of-one normaliser          *)
(* _delist_dict, the geo-attachment _geopandify, the data-dictionary       *)
(* reconstruction data_dictionary and the two retrieval entry points       *)
(* get_all_data / get_filtered_data with their validation.                 *)
(*                                                                         *)
(* Encoding of Python values                                               *)
(*   None            <<>>          Some(x)  <<x>>   (optional arguments)   *)
(*   JSON value      [kind, items] kind is "scalar", "null", "nan", "list" *)
(*   str             a sequence of tokens; "CR", "LF", "SP" stand for the  *)
(*                   characters \r, \n and space; <<>> is an empty CSV     *)
(*                   cell, which pandas reads as NaN                       *)
(*   dict            a function from a set of key strings                  *)
(***************************************************************************)
EXTENDS Integers, Sequences, FiniteSets, TLC

VARIABLES op, pc, args, requests, resp, data, result, err, reprojections

vars == <<op, pc, args, requests, resp, data, result, err, reprojections>>

-----------------------------------------------------------------------------
(* Bounds of the model *)

MaxListLen == 2     \* longest list value inside a raw record
MaxRecs == 2        \* most records in one JSON response
MaxLines == 3       \* most lines after the first in a dictionary CSV
MaxParams == 2      \* most keys in a query_params mapping

-----------------------------------------------------------------------------
(* Python value encodings *)

None == <<>>
Some(x) == <<x>>

Scalar(v) == [kind |-> "scalar", items |-> <<v>>]
Null == [kind |-> "null", items |-> <<>>]
NaN == [kind |-> "nan", items |-> <<>>]
List(s) == [kind |-> "list", items |-> s]

isinstance_list(x) == x.kind = "list"

NoError == [type |-> "none", inp |-> "", valid |-> {}]
NoResult == [kind |-> "none"]

SeqsUpTo(S, n) == UNION {[1..k -> S] : k \in 0..n}

-----------------------------------------------------------------------------
(* _delist_dict *)

\* variant: the zero-length branch is missing
delist_no_empty_branch(x) ==
    IF isinstance_list(x) /\ Len(x.items) = 1 THEN Scalar(x.items[1])
    ELSE x

\* variant: the empty case is tested by truthiness, which None also fails
delist_falsy_is_missing(x) ==
    IF isinstance_list(x) /\ Len(x.items) = 1 THEN Scalar(x.items[1])
    ELSE IF (isinstance_list(x) /\ Len(x.items) = 0) \/ x = Null THEN NaN
    ELSE x

\* variant: every non-empty list is replaced by its first element
delist_first_of_any(x) ==
    IF isinstance_list(x) /\ Len(x.items) >= 1 THEN Scalar(x.items[1])
    ELSE IF isinstance_list(x) /\ Len(x.items) = 0 THEN NaN
    ELSE x

delist(x) ==
    IF isinstance_list(x) /\ Len(x.items) = 1 THEN Scalar(x.items[1])
    ELSE IF isinstance_list(x) /\ Len(x.items) = 0 THEN NaN
    ELSE x

\* variant: keys whose value is an empty list are left out of the result
_delist_dict_skip_empty(d) ==
    [k \in {j \in DOMAIN d : d[j] # List(<<>>)} |-> delist(d[k])]

_delist_dict(d) == [k \in DOMAIN d |-> delist(d[k])]

-----------------------------------------------------------------------------
(* Inputs of the normaliser taken on its own *)

Numbers == {7, 8}
JsonValues == {Scalar(n) : n \in Numbers} \cup {Null}
                \cup {List(s) : s \in SeqsUpTo(Numbers, MaxListLen)}
DelistKeys == {"latitude_dd", "site_id"}
DelistInputs == UNION {[ks -> JsonValues] : ks \in SUBSET DelistKeys}

InitDelist ==
    /\ op = "_delist_dict"
    /\ pc = "call"
    /\ args = [data_type |-> ""]
    /\ requests = <<>>
    /\ resp \in {<<d>> : d \in DelistInputs}
    /\ data = <<>>
    /\ result = NoResult
    /\ err = NoError
    /\ reprojections = <<>>

ApplyDelist ==
    /\ op = "_delist_dict"
    /\ pc = "call"
    /\ data' = <<_delist_dict(resp[1])>>
    /\ pc' = "done"
    /\ UNCHANGED <<op, args, requests, resp, result, err, reprojections>>

\* _delist_dict applied to the mapping the first application returned
ApplyDelistAgain ==
    /\ op = "_delist_dict"
    /\ pc = "done"
    /\ result' = [kind |-> "dict", value |-> _delist_dict(data[1])]
    /\ pc' = "done2"
    /\ UNCHANGED <<op, args, requests, resp, data, err, reprojections>>

NextDelist ==
    \/ ApplyDelist
    \/ ApplyDelistAgain

SpecDelist == InitDelist /\ [][NextDelist]_vars

(* C1: after _delist_dict, every key whose input value is a list of exactly *)
(* one element holds that element, and every key whose input value is a     *)
(* list of no element holds NaN.                                            *)
C1_UnitAndEmptyLists ==
    (op = "_delist_dict" /\ pc = "done") =>
        \A k \in DOMAIN resp[1] :
            /\ (resp[1][k].kind = "list" /\ Len(resp[1][k].items) = 1)
                  => data[1][k] = Scalar(resp[1][k].items[1])
            /\ (resp[1][k].kind = "list" /\ Len(resp[1][k].items) = 0)
                  => data[1][k] = NaN

C1_Witness ==
    /\ op = "_delist_dict" /\ pc = "done"
    /\ \E k \in DOMAIN resp[1] : resp[1][k] = List(<<7>>) /\ data[1][k] = Scalar(7)
    /\ \E k \in DOMAIN resp[1] : resp[1][k] = List(<<>>) /\ data[1][k] = NaN

(* C2: after _delist_dict, every key whose input value is a scalar or a     *)
(* list of two or more elements holds the input value itself, whole.        *)
C2_PassThrough ==
    (op = "_delist_dict" /\ pc = "done") =>
        \A k \in DOMAIN resp[1] :
            (resp[1][k].kind # "list" \/ Len(resp[1][k].items) >= 2)
                => data[1][k] = resp[1][k]

C2_Witness ==
    /\ op = "_delist_dict" /\ pc = "done"
    /\ \E k \in DOMAIN resp[1] : resp[1][k] = List(<<7, 8>>) /\ data[1][k] = List(<<7, 8>>)
    /\ \E k \in DOMAIN resp[1] : resp[1][k] = Scalar(8) /\ data[1][k] = Scalar(8)

(* C8: a call of _delist_dict always returns (no exception), the mapping it *)
(* returns has exactly the keys of its input, and the input mapping is the  *)
(* same after the call as before it.                                        *)
C8_TotalAndPure ==
    [][(op = "_delist_dict" /\ pc = "call") =>
          /\ pc' = "done"
          /\ err' = NoError
          /\ DOMAIN data'[1] = DOMAIN resp[1]
          /\ resp' = resp]_vars

C8_Witness ==
    /\ op = "_delist_dict" /\ pc = "done"
    /\ DOMAIN resp[1] = DelistKeys
    /\ resp[1]["site_id"] = List(<<>>)
    /\ data[1] # resp[1]
    /\ DOMAIN data[1] = DelistKeys

NoLists(d) == \A k \in DOMAIN d : d[k].kind # "list"

ShortLists(d) == \A k \in DOMAIN d : d[k].kind = "list" => Len(d[k].items) <= 1

(* C14: _delist_dict returns a mapping equal to its input when no value of  *)
(* the input is a list, and applied a second time to its own result it      *)
(* returns that result again, for every record whose values are scalars or  *)
(* lists of at most one scalar.                                             *)
C14_Idempotent ==
    /\ (op = "_delist_dict" /\ pc \in {"done", "done2"} /\ NoLists(resp[1]))
          => data[1] = resp[1]
    /\ (op = "_delist_dict" /\ pc = "done2" /\ ShortLists(resp[1]))
          => (NoLists(data[1]) /\ result.value = data[1])

C14_Witness ==
    /\ op = "_delist_dict" /\ pc = "done2"
    /\ resp[1] = [latitude_dd |-> List(<<7>>), site_id |-> List(<<>>)]
    /\ data[1] = [latitude_dd |-> Scalar(7), site_id |-> NaN]
    /\ result.value = data[1]

-----------------------------------------------------------------------------
(* Class attributes of STNFloodEventData *)

service_crs == 4326

instruments_query_params ==
    {"Event", "EventType", "EventStatus", "States", "County", "CurrentStatus",
     "CollectionCondition", "SensorType", "DeploymentType"}

peaks_query_params ==
    {"Event", "EventType", "EventStatus", "States", "County", "StartDate", "EndDate"}

hwms_query_params ==
    {"Event", "EventType", "EventStatus", "States", "County", "StartDate", "EndDate"}

sites_query_params ==
    {"Event", "State", "SensorType", "NetworkName", "OPDefined", "HWMOnly",
     "HWMSurveyed", "SensorOnly", "RDGOnly", "HousingTypeOne", "HousingTypeSeven"}

-----------------------------------------------------------------------------
(* Exceptions.  InputValueError(inp, valid_inputs) keeps its two arguments; *)
(* the others are raised by pandas / the list type and carry the key.       *)

InputValueError(inp, valid_inputs) ==
    [type |-> "InputValueError", inp |-> inp, valid |-> valid_inputs]

KeyError(key) == [type |-> "KeyError", inp |-> key, valid |-> {}]
ValueError(key) == [type |-> "ValueError", inp |-> key, valid |-> {}]
IndexError == [type |-> "IndexError", inp |-> "", valid |-> {}]
EmptyDataError == [type |-> "EmptyDataError", inp |-> "", valid |-> {}]

-----------------------------------------------------------------------------
(* pd.DataFrame(list of dict): the columns are the union of the keys, one   *)
(* row per dict in order, NaN where a dict has no such key.                 *)

\* variant: the rows come out in reverse order
DataFrame_reversed(input_list) ==
    LET columns == UNION {DOMAIN input_list[i] : i \in 1..Len(input_list)}
        n == Len(input_list)
    IN  [kind |-> "DataFrame",
         columns |-> columns,
         rows |-> [i \in 1..n |->
                     [c \in columns |->
                        IF c \in DOMAIN input_list[n + 1 - i]
                          THEN input_list[n + 1 - i][c] ELSE NaN]]]

DataFrame(input_list) ==
    LET columns == UNION {DOMAIN input_list[i] : i \in 1..Len(input_list)}
    IN  [kind |-> "DataFrame",
         columns |-> columns,
         rows |-> [i \in 1..Len(input_list) |->
                     [c \in columns |->
                        IF c \in DOMAIN input_list[i] THEN input_list[i][c] ELSE NaN]]]

(* gpd.points_from_xy(x, y, crs): one point per row, tagged with the CRS   *)
(* the coordinates are read in.                                            *)
points_from_xy(x, y, crs) ==
    [crs |-> crs, pts |-> [i \in 1..Len(x) |-> <<x[i], y[i]>>]]

(* GeoDataFrame.to_crs(crs): one call to the reprojection on the whole     *)
(* geometry column; the transform itself is external, so the result keeps  *)
(* the source coordinates together with the source and the target CRS.     *)
to_crs(geometry, crs) ==
    [crs |-> crs, from |-> geometry.crs, pts |-> geometry.pts]

(* np.asarray(column, dtype="float64") inside points_from_xy rejects a     *)
(* cell that is still a list.                                              *)
IsCoordinate(cell) == cell.kind # "list"

\* variant: every point is reprojected by a call of its own
_geopandify_reproject_each(input_list, x_col, y_col, crs_arg) ==
    LET df == DataFrame(input_list)
        crs == IF crs_arg = None THEN service_crs ELSE crs_arg[1]
        n == Len(input_list)
    IN  IF x_col \notin df.columns
          THEN [err |-> KeyError(x_col), result |-> NoResult, reprojected |-> <<>>]
        ELSE IF y_col \notin df.columns
          THEN [err |-> KeyError(y_col), result |-> NoResult, reprojected |-> <<>>]
        ELSE IF \E i \in 1..n : ~IsCoordinate(df.rows[i][x_col])
          THEN [err |-> ValueError(x_col), result |-> NoResult, reprojected |-> <<>>]
        ELSE IF \E i \in 1..n : ~IsCoordinate(df.rows[i][y_col])
          THEN [err |-> ValueError(y_col), result |-> NoResult, reprojected |-> <<>>]
        ELSE LET geometry == points_from_xy([i \in 1..n |-> df.rows[i][x_col]],
                                            [i \in 1..n |-> df.rows[i][y_col]],
                                            service_crs)
             IN  [err |-> NoError,
                  result |-> [kind |-> "GeoDataFrame",
                              columns |-> df.columns,
                              rows |-> df.rows,
                              geometry |-> to_crs(geometry, crs)],
                  reprojected |-> [i \in 1..n |->
                                     [n |-> 1, from |-> geometry.crs, to |-> crs]]]

\* variant: the points are built in the requested CRS, not the service CRS
_geopandify_points_in_requested_crs(input_list, x_col, y_col, crs_arg) ==
    LET df == DataFrame(input_list)
        crs == IF crs_arg = None THEN service_crs ELSE crs_arg[1]
        n == Len(input_list)
    IN  IF x_col \notin df.columns
          THEN [err |-> KeyError(x_col), result |-> NoResult, reprojected |-> <<>>]
        ELSE IF y_col \notin df.columns
          THEN [err |-> KeyError(y_col), result |-> NoResult, reprojected |-> <<>>]
        ELSE IF \E i \in 1..n : ~IsCoordinate(df.rows[i][x_col])
          THEN [err |-> ValueError(x_col), result |-> NoResult, reprojected |-> <<>>]
        ELSE IF \E i \in 1..n : ~IsCoordinate(df.rows[i][y_col])
          THEN [err |-> ValueError(y_col), result |-> NoResult, reprojected |-> <<>>]
        ELSE LET geometry == points_from_xy([i \in 1..n |-> df.rows[i][x_col]],
                                            [i \in 1..n |-> df.rows[i][y_col]],
                                            crs)
             IN  [err |-> NoError,
                  result |-> [kind |-> "GeoDataFrame",
                              columns |-> df.columns,
                              rows |-> df.rows,
                              geometry |-> to_crs(geometry, crs)],
                  reprojected |-> <<[n |-> n, from |-> geometry.crs, to |-> crs]>>]

_geopandify(input_list, x_col, y_col, crs_arg) ==
    LET df == DataFrame(input_list)
        crs == IF crs_arg = None THEN service_crs ELSE crs_arg[1]
        n == Len(input_list)
    IN  IF x_col \notin df.columns
          THEN [err |-> KeyError(x_col), result |-> NoResult, reprojected |-> <<>>]
        ELSE IF y_col \notin df.columns
          THEN [err |-> KeyError(y_col), result |-> NoResult, reprojected |-> <<>>]
        ELSE IF \E i \in 1..n : ~IsCoordinate(df.rows[i][x_col])
          THEN [err |-> ValueError(x_col), result |-> NoResult, reprojected |-> <<>>]
        ELSE IF \E i \in 1..n : ~IsCoordinate(df.rows[i][y_col])
          THEN [err |-> ValueError(y_col), result |-> NoResult, reprojected |-> <<>>]
        ELSE LET geometry == points_from_xy([i \in 1..n |-> df.rows[i][x_col]],
                                            [i \in 1..n |-> df.rows[i][y_col]],
                                            service_crs)
             IN  [err |-> NoError,
                  result |-> [kind |-> "GeoDataFrame",
                              columns |-> df.columns,
                              rows |-> df.rows,
                              geometry |-> to_crs(geometry, crs)],
                  reprojected |-> <<[n |-> n, from |-> geometry.crs, to |-> crs]>>]

-----------------------------------------------------------------------------
(* Arguments the callers pass and responses the service returns *)

DataTypeInputs == {"instruments", "peaks", "hwms", "sites", "sensors"}

CrsInputs == {None, Some(3857)}

\* keyword arguments for async_retriever, as the set of their names
KwargInputs == {None, Some({"url", "request_kwds", "max_workers"})}

ParamKeyInputs == {"Event", "State", "States", "NotAKey"}

QueryParamInputs ==
    {None} \cup
    {Some(m) : m \in UNION {[ks -> {"CA"}] :
                  ks \in {q \in SUBSET ParamKeyInputs : Cardinality(q) <= MaxParams}}}

ResponseRecords ==
    { [longitude_dd |-> Scalar(7), latitude_dd |-> List(<<8>>)],
      [longitude_dd |-> List(<<>>), latitude_dd |-> Scalar(8), site_id |-> List(<<7, 8>>)],
      [latitude_dd |-> Scalar(7), site_id |-> List(<<8>>)],
      [longitude |-> List(<<7>>), latitude |-> Scalar(8)],
      [longitude |-> Scalar(7), latitude |-> Null,
       longitude_dd |-> Scalar(8), latitude_dd |-> Scalar(7)],
      [longitude_dd |-> List(<<7, 8>>), latitude_dd |-> Scalar(7)] }

JsonResponses == SeqsUpTo(ResponseRecords, MaxRecs)

-----------------------------------------------------------------------------
(* One invocation at a time: "idle" -> (validation) -> "awaiting" the       *)
(* retrieval collaborator -> "returned", or "raised" from either step.      *)

Init ==
    /\ op = "none"
    /\ pc = "idle"
    /\ args = [data_type |-> ""]
    /\ requests = <<>>
    /\ resp = <<>>
    /\ data = <<>>
    /\ result = NoResult
    /\ err = NoError
    /\ reprojections = <<>>

Raise(e) ==
    /\ pc' = "raised"
    /\ err' = e
    /\ result' = NoResult

\* kwargs.pop(name, None) for every name in names; None becomes {}
PopKwargs(kwargs, names) == IF kwargs = None THEN {} ELSE kwargs[1] \ names

-----------------------------------------------------------------------------
(* get_all_data *)

all_endpoint_dict ==
    [instruments |-> "Instruments.json", peaks |-> "PeakSummaries.json",
     hwms |-> "HWMs.json", sites |-> "Sites.json"]

all_xy_cols ==
    [instruments |-> None, peaks |-> None,
     hwms |-> Some(<<"longitude_dd", "latitude_dd">>),
     sites |-> Some(<<"longitude_dd", "latitude_dd">>)]

get_all_data(data_type, as_list, crs, crs_omitted, async_retriever_kwargs) ==
    /\ pc = "idle"
    /\ op' = "get_all_data"
    /\ args' = [data_type |-> data_type, as_list |-> as_list, crs |-> crs,
                crs_omitted |-> crs_omitted, query_params |-> None,
                async_retriever_kwargs |-> async_retriever_kwargs]
    /\ IF data_type \notin DOMAIN all_endpoint_dict
         THEN /\ Raise(InputValueError(data_type, DOMAIN all_endpoint_dict))
              /\ UNCHANGED requests
         ELSE /\ requests' = Append(requests,
                    [fn |-> "retrieve_json",
                     url |-> <<"service_url", all_endpoint_dict[data_type]>>,
                     params |-> None,
                     kwds |-> PopKwargs(async_retriever_kwargs, {"url"})])
              /\ pc' = "awaiting"
              /\ UNCHANGED <<err, result>>
    /\ UNCHANGED <<resp, data, reprojections>>

\* lines 335-350, shared in shape with lines 475-486 of get_filtered_data
Finish(response, xy) ==
    LET normalized == [i \in 1..Len(response) |-> _delist_dict(response[i])]
    IN  /\ resp' = response
        /\ data' = normalized
        /\ IF args.as_list
             THEN /\ result' = [kind |-> "list", rows |-> normalized]
                  /\ pc' = "returned"
                  /\ UNCHANGED <<err, reprojections>>
           ELSE IF xy = None
             THEN /\ result' = DataFrame(normalized)
                  /\ pc' = "returned"
                  /\ UNCHANGED <<err, reprojections>>
           ELSE LET g == _geopandify(normalized, xy[1][1], xy[1][2], args.crs)
                IN  /\ result' = g.result
                    /\ err' = g.err
                    /\ reprojections' = reprojections \o g.reprojected
                    /\ pc' = IF g.err = NoError THEN "returned" ELSE "raised"
        /\ UNCHANGED <<op, args, requests>>

get_all_data_resume(response) ==
    /\ op = "get_all_data"
    /\ pc = "awaiting"
    /\ Finish(response, all_xy_cols[args.data_type])

-----------------------------------------------------------------------------
(* get_filtered_data *)

filtered_endpoint_dict ==
    [instruments |-> "Instruments/FilteredInstruments.json",
     peaks |-> "PeakSummaries/FilteredPeaks.json",
     hwms |-> "HWMs/FilteredHWMs.json",
     sites |-> "Sites/FilteredSites.json"]

allowed_query_param_dict ==
    [instruments |-> instruments_query_params, peaks |-> peaks_query_params,
     hwms |-> hwms_query_params, sites |-> sites_query_params]

\* variant: instruments and peaks have no coordinate columns, as in get_all_data
filtered_xy_cols_hwms_sites_only ==
    [instruments |-> None, peaks |-> None,
     hwms |-> Some(<<"longitude", "latitude">>),
     sites |-> Some(<<"longitude_dd", "latitude_dd">>)]

filtered_xy_cols ==
    [instruments |-> Some(<<"longitude", "latitude">>),
     peaks |-> Some(<<"longitude_dd", "latitude_dd">>),
     hwms |-> Some(<<"longitude", "latitude">>),
     sites |-> Some(<<"longitude_dd", "latitude_dd">>)]

\* variant: one allowed key is enough
query_params_ok_any(query_params, allowed_query_params) ==
    LET params == IF query_params = None THEN <<>> ELSE query_params[1]
    IN  DOMAIN params = {} \/ DOMAIN params \cap allowed_query_params # {}

\* lines 458-462: None becomes {}, then the subset test on the keys
query_params_ok(query_params, allowed_query_params) ==
    LET params == IF query_params = None THEN <<>> ELSE query_params[1]
    IN  DOMAIN params \subseteq allowed_query_params

\* variant: the request is issued before the query parameters are checked
get_filtered_data_fetch_first(data_type, query_params, as_list, crs, crs_omitted, async_retriever_kwargs) ==
    /\ pc = "idle"
    /\ op' = "get_filtered_data"
    /\ args' = [data_type |-> data_type, as_list |-> as_list, crs |-> crs,
                crs_omitted |-> crs_omitted, query_params |-> query_params,
                async_retriever_kwargs |-> async_retriever_kwargs]
    /\ IF data_type \notin DOMAIN filtered_endpoint_dict
         THEN /\ Raise(InputValueError(data_type, DOMAIN filtered_endpoint_dict))
              /\ UNCHANGED requests
         ELSE /\ requests' = Append(requests,
                    [fn |-> "retrieve_json",
                     url |-> <<"service_url", filtered_endpoint_dict[data_type]>>,
                     params |-> Some(IF query_params = None THEN <<>>
                                     ELSE query_params[1]),
                     kwds |-> PopKwargs(async_retriever_kwargs,
                                        {"url", "request_kwds"})])
              /\ IF ~query_params_ok(query_params, allowed_query_param_dict[data_type])
                   THEN Raise(InputValueError("query_param",
                                              allowed_query_param_dict[data_type]))
                   ELSE /\ pc' = "awaiting"
                        /\ UNCHANGED <<err, result>>
    /\ UNCHANGED <<resp, data, reprojections>>

get_filtered_data(data_type, query_params, as_list, crs, crs_omitted, async_retriever_kwargs) ==
    /\ pc = "idle"
    /\ op' = "get_filtered_data"
    /\ args' = [data_type |-> data_type, as_list |-> as_list, crs |-> crs,
                crs_omitted |-> crs_omitted, query_params |-> query_params,
                async_retriever_kwargs |-> async_retriever_kwargs]
    /\ IF data_type \notin DOMAIN filtered_endpoint_dict
         THEN /\ Raise(InputValueError(data_type, DOMAIN filtered_endpoint_dict))
              /\ UNCHANGED requests
       ELSE IF ~query_params_ok(query_params, allowed_query_param_dict[data_type])
         THEN /\ Raise(InputValueError("query_param",
                                       allowed_query_param_dict[data_type]))
              /\ UNCHANGED requests
         ELSE /\ requests' = Append(requests,
                    [fn |-> "retrieve_json",
                     url |-> <<"service_url", filtered_endpoint_dict[data_type]>>,
                     params |-> Some(IF query_params = None THEN <<>>
                                     ELSE query_params[1]),
                     kwds |-> PopKwargs(async_retriever_kwargs,
                                        {"url", "request_kwds"})])
              /\ pc' = "awaiting"
              /\ UNCHANGED <<err, result>>
    /\ UNCHANGED <<resp, data, reprojections>>

get_filtered_data_resume(response) ==
    /\ op = "get_filtered_data"
    /\ pc = "awaiting"
    /\ Finish(response, filtered_xy_cols[args.data_type])

-----------------------------------------------------------------------------
(* data_dictionary *)

dtype_dict ==
    [instruments |-> "Instruments.csv", peaks |-> "FilteredPeaks.csv",
     hwms |-> "FilteredHWMs.csv", sites |-> "sites.csv"]

isna(cell) == cell = <<>>

\* pd.read_csv names a blank header cell "Unnamed: <position>"
column_name(cell, position) ==
    IF cell # <<>> THEN cell
    ELSE IF position = 0 THEN <<"Unnamed: 0">> ELSE <<"Unnamed: 1">>

\* pd.read_csv(StringIO(text)): the first line gives the column labels, every
\* other line is a row; it needs at least one line
read_csv(text) ==
    [columns |-> <<column_name(text[1].Field, 0), column_name(text[1].Definition, 1)>>,
     rows |-> [i \in 1..(Len(text) - 1) |-> <<text[i + 1].Field, text[i + 1].Definition>>]]

\* variant: a carriage-return+newline becomes one space
RECURSIVE replace_crlf_one_space(_)
replace_crlf_one_space(s) ==
    IF s = <<>> THEN <<>>
    ELSE IF Len(s) >= 2 /\ s[1] = "CR" /\ s[2] = "LF"
      THEN <<"SP">> \o replace_crlf_one_space(SubSeq(s, 3, Len(s)))
    ELSE <<s[1]>> \o replace_crlf_one_space(Tail(s))

\* str.replace("\r\n", "  ") on one definition, left to right
RECURSIVE replace_crlf(_)
replace_crlf(s) ==
    IF s = <<>> THEN <<>>
    ELSE IF Len(s) >= 2 /\ s[1] = "CR" /\ s[2] = "LF"
      THEN <<"SP", "SP">> \o replace_crlf(SubSeq(s, 3, Len(s)))
    ELSE <<s[1]>> \o replace_crlf(Tail(s))

\* lines 235-239: relabel a headerless table, then normalise the definitions;
\* rows are <<Field, Definition>> pairs afterwards
relabel(df) ==
    IF <<"Field">> \notin {df.columns[1], df.columns[2]}
      THEN [df EXCEPT !.rows[1] = df.columns]
      ELSE df

normalize_definitions(rows) ==
    [i \in 1..Len(rows) |-> <<rows[i][1], replace_crlf(rows[i][2])>>]

\* variant: the continuation is appended without the separating space
RECURSIVE concatenate_no_space(_, _, _, _)
concatenate_no_space(rows, i, Field, Definition) ==
    IF i > Len(rows)
      THEN [err |-> NoError, Field |-> Field, Definition |-> Definition]
    ELSE IF isna(rows[i][1])
      THEN IF Len(Definition) = 0
             THEN [err |-> IndexError, Field |-> Field, Definition |-> Definition]
             ELSE concatenate_no_space(rows, i + 1, Field,
                      [Definition EXCEPT ![Len(Definition)] = @ \o rows[i][2]])
    ELSE concatenate_no_space(rows, i + 1, Append(Field, rows[i][1]),
                              Append(Definition, rows[i][2]))

\* lines 243-250: the loop over the rows, from row i on, with the two lists
\* of data_dict built so far
RECURSIVE concatenate(_, _, _, _)
concatenate(rows, i, Field, Definition) ==
    IF i > Len(rows)
      THEN [err |-> NoError, Field |-> Field, Definition |-> Definition]
    ELSE IF isna(rows[i][1])
      THEN IF Len(Definition) = 0
             THEN [err |-> IndexError, Field |-> Field, Definition |-> Definition]
             ELSE concatenate(rows, i + 1, Field,
                      [Definition EXCEPT ![Len(Definition)] = @ \o <<"SP">> \o rows[i][2]])
    ELSE concatenate(rows, i + 1, Append(Field, rows[i][1]),
                     Append(Definition, rows[i][2]))

data_dictionary(data_type, as_dict, async_retriever_kwargs) ==
    /\ pc = "idle"
    /\ op' = "data_dictionary"
    /\ args' = [data_type |-> data_type, as_dict |-> as_dict,
                async_retriever_kwargs |-> async_retriever_kwargs]
    /\ IF data_type \notin DOMAIN dtype_dict
         THEN /\ Raise(InputValueError(data_type, DOMAIN dtype_dict))
              /\ UNCHANGED requests
         ELSE /\ requests' = Append(requests,
                    [fn |-> "retrieve_text",
                     url |-> <<"data_dictionary_url", dtype_dict[data_type]>>,
                     params |-> None,
                     kwds |-> PopKwargs(async_retriever_kwargs, {"url"})])
              /\ pc' = "awaiting"
              /\ UNCHANGED <<err, result>>
    /\ UNCHANGED <<resp, data, reprojections>>

data_dictionary_resume(text) ==
    /\ op = "data_dictionary"
    /\ pc = "awaiting"
    /\ resp' = text
    /\ IF Len(text) = 0
         THEN /\ Raise(EmptyDataError)
              /\ data' = <<>>
       ELSE IF <<"Field">> \notin {read_csv(text).columns[1], read_csv(text).columns[2]}
               /\ Len(read_csv(text).rows) = 0
         THEN /\ Raise(IndexError)     \* data.iloc[0] = ... on a table with no row
              /\ data' = <<>>
       ELSE LET rows == normalize_definitions(relabel(read_csv(text)).rows)
                data_dict == concatenate(rows, 1, <<>>, <<>>)
            IN  /\ data' = rows
                /\ IF data_dict.err # NoError
                     THEN Raise(data_dict.err)
                   ELSE /\ pc' = "returned"
                        /\ err' = NoError
                        /\ result' =
                             IF args.as_dict
                               THEN [kind |-> "dict", Field |-> data_dict.Field,
                                     Definition |-> data_dict.Definition]
                               ELSE [kind |-> "DataFrame",
                                     columns |-> {"Field", "Definition"},
                                     rows |-> [i \in 1..Len(data_dict.Field) |->
                                        [Field |-> data_dict.Field[i],
                                         Definition |-> data_dict.Definition[i]]]]
    /\ UNCHANGED <<op, args, requests, reprojections>>

\* what the dictionary endpoint may send: an optional Field,Definition header
\* line, then lines whose Field cell may be blank
HeaderLine == [Field |-> <<"Field">>, Definition |-> <<"Definition">>]
FieldCells == {<<>>, <<"lat">>, <<"lon">>}
DefinitionCells == {<<"a">>, <<"b", "CR", "LF", "CR", "CR", "LF", "c">>}
CsvLines == [Field : FieldCells, Definition : DefinitionCells]
CsvTexts ==
    {<<>>} \cup
    {<<first>> \o rest : first \in CsvLines \cup {HeaderLine},
                         rest \in SeqsUpTo(CsvLines, MaxLines)}

CallDataDictionary ==
    /\ pc = "idle"
    /\ \E data_type \in DataTypeInputs, as_dict \in BOOLEAN, kw \in KwargInputs :
        data_dictionary(data_type, as_dict, kw)

ResumeDataDictionary ==
    /\ op = "data_dictionary" /\ pc = "awaiting"
    /\ \E text \in CsvTexts : data_dictionary_resume(text)

-----------------------------------------------------------------------------
(* NFHL.__init__ (src/pygeohydro/nfhl.py).  The base-class initialiser      *)
(* AGRBase.__init__ is the map-service client; a call of it is logged in    *)
(* `requests` with the four arguments it receives.                          *)

valid_services ==
    [NFHL |-> "ServiceURL().restful.fema",
     Prelim_CSLF |-> "https://hazards.fema.gov/gis/nfhl/rest/services/CSLF/Prelim_CSLF/MapServer",
     Draft_CSLF |-> "https://hazards.fema.gov/gis/nfhl/rest/services/CSLF/Draft_CSLF/MapServer",
     Prelim_NFHL |-> "https://hazards.fema.gov/gis/nfhl/rest/services/PrelimPending/Prelim_NFHL/MapServer",
     Pending_NFHL |-> "https://hazards.fema.gov/gis/nfhl/rest/services/PrelimPending/Pending_NFHL/MapServer",
     Draft_NFHL |-> "https://hazards.fema.gov/gis/nfhl/rest/services/AFHI/Draft_FIRM_DB/MapServer"]

\* self.valid_services.get(service): None for a key the table lacks
valid_services_get(service) ==
    IF service \in DOMAIN valid_services THEN Some(valid_services[service]) ELSE None

\* variant: the base class is initialised before the service is checked
NFHL_init_client_first(service, layer, outfields, crs) ==
    /\ pc = "idle"
    /\ op' = "NFHL.__init__"
    /\ args' = [service |-> service, layer |-> layer, outfields |-> outfields,
                crs |-> crs]
    /\ LET url == valid_services_get(service)
       IN  /\ requests' = Append(requests,
                  [fn |-> "AGRBase.__init__", url |-> url, layer |-> layer,
                   outfields |-> outfields, crs |-> crs])
           /\ IF url = None
                THEN Raise(InputValueError("service", DOMAIN valid_services))
                ELSE /\ pc' = "awaiting"
                     /\ UNCHANGED <<err, result>>
    /\ UNCHANGED <<resp, data, reprojections>>

NFHL_init(service, layer, outfields, crs) ==
    /\ pc = "idle"
    /\ op' = "NFHL.__init__"
    /\ args' = [service |-> service, layer |-> layer, outfields |-> outfields,
                crs |-> crs]
    /\ LET url == valid_services_get(service)
       IN  IF url = None
             THEN /\ Raise(InputValueError("service", DOMAIN valid_services))
                  /\ UNCHANGED requests
             ELSE /\ requests' = Append(requests,
                        [fn |-> "AGRBase.__init__", url |-> url, layer |-> layer,
                         outfields |-> outfields, crs |-> crs])
                  /\ pc' = "awaiting"
                  /\ UNCHANGED <<err, result>>
    /\ UNCHANGED <<resp, data, reprojections>>

\* super().__init__ returns and the constructor ends
NFHL_init_resume ==
    /\ op = "NFHL.__init__"
    /\ pc = "awaiting"
    /\ pc' = "returned"
    /\ result' = [kind |-> "NFHL", valid_services |-> valid_services]
    /\ UNCHANGED <<op, args, requests, resp, data, err, reprojections>>

ServiceInputs == DOMAIN valid_services \cup {"FIRM"}
LayerInputs == {"cross-sections", "draft"}
OutfieldInputs == {<<"*">>, <<"OBJECTID", "FLD_ZONE">>}
NfhlCrsInputs == {4326, 3857}

CallNFHL ==
    /\ pc = "idle"
    /\ \E service \in ServiceInputs, layer \in LayerInputs,
          outfields \in OutfieldInputs, crs \in NfhlCrsInputs :
            NFHL_init(service, layer, outfields, crs)

-----------------------------------------------------------------------------
(* The invocation is over (a result returned or an exception propagated);   *)
(* nothing of it is kept, the next call starts from the class constants.    *)

Return ==
    /\ pc \in {"returned", "raised"}
    /\ op' = "none"
    /\ pc' = "idle"
    /\ args' = [data_type |-> ""]
    /\ requests' = <<>>
    /\ resp' = <<>>
    /\ data' = <<>>
    /\ result' = NoResult
    /\ err' = NoError
    /\ reprojections' = <<>>

CallGetAllData ==
    /\ pc = "idle"
    /\ \E data_type \in DataTypeInputs, as_list \in BOOLEAN, crs_omitted \in BOOLEAN,
       crs \in CrsInputs, kw \in KwargInputs :
        get_all_data(data_type, as_list,
                     IF crs_omitted THEN Some(service_crs) ELSE crs, crs_omitted, kw)

ResumeGetAllData ==
    /\ op = "get_all_data" /\ pc = "awaiting"
    /\ \E response \in JsonResponses : get_all_data_resume(response)

CallGetFilteredData ==
    /\ pc = "idle"
    /\ \E data_type \in DataTypeInputs, query_params \in QueryParamInputs,
       as_list \in BOOLEAN, crs_omitted \in BOOLEAN, crs \in CrsInputs,
       kw \in KwargInputs :
        get_filtered_data(data_type, query_params, as_list,
                          IF crs_omitted THEN Some(service_crs) ELSE crs,
                          crs_omitted, kw)

ResumeGetFilteredData ==
    /\ op = "get_filtered_data" /\ pc = "awaiting"
    /\ \E response \in JsonResponses : get_filtered_data_resume(response)

Next ==
    \/ CallDataDictionary
    \/ ResumeDataDictionary
    \/ CallGetAllData
    \/ ResumeGetAllData
    \/ CallGetFilteredData
    \/ ResumeGetFilteredData
    \/ CallNFHL
    \/ NFHL_init_resume
    \/ Return

Spec == Init /\ [][Next]_vars

-----------------------------------------------------------------------------
(* Claims about data_dictionary.  In a finished invocation `data` holds the *)
(* rows the loop scanned, as <<Field, Definition>> pairs.                   *)

DictionaryDone == op = "data_dictionary" /\ pc \in {"returned", "raised"}

OutField == IF result.kind = "dict" THEN result.Field
            ELSE [i \in 1..Len(result.rows) |-> result.rows[i].Field]

OutDefinition == IF result.kind = "dict" THEN result.Definition
                 ELSE [i \in 1..Len(result.rows) |-> result.rows[i].Definition]

FieldRows(rows) == {i \in 1..Len(rows) : ~isna(rows[i][1])}

\* position in the output of the entry the field-defining row i starts
EntryOf(rows, i) == Cardinality({m \in FieldRows(rows) : m <= i})

\* " " + definition of every continuation row from row k up to the next
\* field-defining row
RECURSIVE Continuations(_, _)
Continuations(rows, k) ==
    IF k > Len(rows) \/ ~isna(rows[k][1]) THEN <<>>
    ELSE <<"SP">> \o rows[k][2] \o Continuations(rows, k + 1)

(* C3: when data_dictionary returns, its output has exactly one entry per   *)
(* field-defining row, in the order of the rows; the entry's field is that  *)
(* row's field and its definition is that row's definition followed, for    *)
(* each continuation row up to the next field-defining row in order, by one *)
(* space and the continuation's definition.  The scan fails only when the   *)
(* first row is a continuation row.                                         *)
C3_Reconstruction ==
    /\ (op = "data_dictionary" /\ pc = "returned") =>
          /\ Len(OutField) = Cardinality(FieldRows(data))
          /\ Len(OutDefinition) = Cardinality(FieldRows(data))
          /\ \A i \in FieldRows(data) :
                /\ OutField[EntryOf(data, i)] = data[i][1]
                /\ OutDefinition[EntryOf(data, i)] =
                      data[i][2] \o Continuations(data, i + 1)
    /\ (DictionaryDone /\ data # <<>> /\ ~isna(data[1][1])) => pc = "returned"

C3_Witness ==
    /\ op = "data_dictionary" /\ pc = "returned"
    /\ Len(data) = 3
    /\ FieldRows(data) = {1, 3}
    /\ data[1][1] # data[3][1]
    /\ OutField = <<data[1][1], data[3][1]>>
    /\ OutDefinition = <<data[1][2] \o <<"SP">> \o data[2][2], data[3][2]>>

(* C4: when the first row scanned by data_dictionary has an empty field,    *)
(* the invocation ends by raising MalformedDictionaryError.                 *)
C4_MalformedDictionaryError ==
    (DictionaryDone /\ data # <<>> /\ isna(data[1][1])) =>
        (pc = "raised" /\ err.type = "MalformedDictionaryError")


-----------------------------------------------------------------------------
(* Claims about validation and retrieval *)

DataTypes == {"instruments", "peaks", "hwms", "sites"}

Invoked == op \in {"data_dictionary", "get_all_data", "get_filtered_data"}

AllowedFor(data_type) ==
    CASE data_type = "instruments" -> instruments_query_params
      [] data_type = "peaks" -> peaks_query_params
      [] data_type = "hwms" -> hwms_query_params
      [] data_type = "sites" -> sites_query_params

\* the mapping the caller supplied, an absent one read as empty
Supplied == IF args.query_params = None THEN <<>> ELSE args.query_params[1]

(* C5: in get_filtered_data with a valid data type, when every supplied key *)
(* is in the data type's allowed set exactly one request is issued and it   *)
(* carries the supplied mapping as it is (the empty mapping when            *)
(* query_params is absent); otherwise the call raises                       *)
(* InputValueError("query_param", allowed set of the data type).            *)
C5_QueryParamValidation ==
    (op = "get_filtered_data" /\ args.data_type \in DataTypes) =>
        IF DOMAIN Supplied \subseteq AllowedFor(args.data_type)
          THEN /\ Len(requests) = 1
               /\ requests[1].params = Some(Supplied)
               /\ err.type # "InputValueError"
          ELSE /\ pc = "raised"
               /\ err = [type |-> "InputValueError", inp |-> "query_param",
                         valid |-> AllowedFor(args.data_type)]

C5_Witness ==
    /\ op = "get_filtered_data" /\ pc = "awaiting"
    /\ args.data_type = "sites"
    /\ args.query_params = Some([k \in {"State", "Event"} |-> "CA"])
    /\ requests[1].params = args.query_params

(* C6: an invocation whose data_type is not one of the four, or whose query *)
(* parameters (get_filtered_data) are not all allowed, ends raising         *)
(* InputValueError with no retrieval call made in it; whenever              *)
(* InputValueError is raised no retrieval call was made, and a retrieval    *)
(* call is made only by an invocation whose arguments are all valid.        *)
C6_FailFast ==
    Invoked =>
        LET invalid == \/ args.data_type \notin DataTypes
                       \/ /\ op = "get_filtered_data"
                          /\ ~(DOMAIN Supplied \subseteq AllowedFor(args.data_type))
        IN  /\ invalid => (pc = "raised" /\ err.type = "InputValueError"
                             /\ requests = <<>>)
            /\ err.type = "InputValueError" => requests = <<>>
            /\ requests # <<>> => ~invalid

C6_Witness ==
    /\ op = "get_filtered_data" /\ pc = "raised"
    /\ args.data_type = "hwms"
    /\ "NotAKey" \in DOMAIN Supplied
    /\ err.type = "InputValueError"
    /\ requests = <<>>

\* the coordinate columns an invocation georeferences with, None for none
XYCols ==
    IF args.as_list THEN None
    ELSE IF op = "get_all_data" THEN all_xy_cols[args.data_type]
    ELSE filtered_xy_cols[args.data_type]

Retrieved == op \in {"get_all_data", "get_filtered_data"} /\ pc \in {"returned", "raised"}
                /\ requests # <<>>

(* C7: what get_all_data / get_filtered_data return has one row per record  *)
(* of the response, and row i is the normalisation of record i: equal to it *)
(* in a list; in a table equal to it on the record's keys and NaN in the    *)
(* columns the record lacks, with point i built from row i.                 *)
C7_OrderPreserved ==
    (op \in {"get_all_data", "get_filtered_data"} /\ pc = "returned") =>
        /\ Len(result.rows) = Len(resp)
        /\ \A i \in 1..Len(resp) :
              LET normalized == _delist_dict(resp[i])
              IN  IF result.kind = "list" THEN result.rows[i] = normalized
                  ELSE /\ \A k \in DOMAIN normalized : result.rows[i][k] = normalized[k]
                       /\ \A c \in result.columns \ DOMAIN normalized :
                             result.rows[i][c] = NaN
        /\ result.kind = "GeoDataFrame" =>
              /\ Len(result.geometry.pts) = Len(resp)
              /\ \A i \in 1..Len(resp) :
                    result.geometry.pts[i] = <<result.rows[i][XYCols[1][1]],
                                               result.rows[i][XYCols[1][2]]>>

C7_Witness ==
    /\ op = "get_filtered_data" /\ pc = "returned"
    /\ result.kind = "GeoDataFrame"
    /\ Len(resp) = 2 /\ resp[1] # resp[2]
    /\ {XYCols[1][1], XYCols[1][2]} \subseteq DOMAIN resp[1]
    /\ result.geometry.pts[1] # result.geometry.pts[2]
    /\ result.geometry.pts[1] = <<_delist_dict(resp[1])[XYCols[1][1]],
                                  _delist_dict(resp[1])[XYCols[1][2]]>>

(* C9: when the x field or the y field is absent from some record handed to *)
(* _geopandify, the invocation ends raising SchemaError.                    *)
C9_SchemaError ==
    (Retrieved /\ XYCols # None
       /\ \E i \in 1..Len(resp) : ~({XYCols[1][1], XYCols[1][2]} \subseteq DOMAIN resp[i]))
      => (pc = "raised" /\ err.type = "SchemaError")

(* C10: every georeferenced result has its points built in EPSG:4326 and is *)
(* reprojected once to the caller's CRS when one is given, and to EPSG:4326 *)
(* when the caller passes None or omits the argument.                       *)
C10_CrsHandling ==
    (op \in {"get_all_data", "get_filtered_data"} /\ pc = "returned"
       /\ result.kind = "GeoDataFrame") =>
        LET target == IF args.crs_omitted \/ args.crs = None THEN 4326
                      ELSE args.crs[1]
        IN  /\ result.geometry.from = 4326
            /\ result.geometry.crs = target
            /\ reprojections = <<[n |-> Len(resp), from |-> 4326, to |-> target]>>

C10_Witness ==
    /\ op = "get_all_data" /\ pc = "returned"
    /\ result.kind = "GeoDataFrame"
    /\ ~args.crs_omitted /\ args.crs = Some(3857)
    /\ result.geometry.from = 4326
    /\ result.geometry.crs = 3857
    /\ Len(resp) = 2

-----------------------------------------------------------------------------
(* Claims about the kind of table returned *)

TableReturned ==
    /\ op \in {"get_all_data", "get_filtered_data"}
    /\ pc = "returned"
    /\ ~args.as_list

\* the plain table of the normalised response, which no crs enters
PlainTable == DataFrame([i \in 1..Len(resp) |-> _delist_dict(resp[i])])

(* C11 as stated: every table returned by get_all_data or get_filtered_data *)
(* carries geometry exactly when data_type is hwms or sites; for            *)
(* instruments and peaks it is the plain normalised table and nothing is    *)
(* reprojected.                                                             *)
C11_GeometryOnlyForHwmsSites ==
    TableReturned =>
        IF args.data_type \in {"hwms", "sites"}
          THEN result.kind = "GeoDataFrame"
          ELSE result = PlainTable /\ reprojections = <<>>

(* C11 as amended: a table returned by get_all_data carries geometry        *)
(* exactly when data_type is hwms or sites, and for instruments and peaks   *)
(* is the plain normalised table with nothing reprojected; a table returned *)
(* by get_filtered_data carries geometry for every data type, reprojected   *)
(* once to the requested CRS.                                               *)
C11_GeometryByOperation ==
    TableReturned =>
        IF op = "get_filtered_data" \/ args.data_type \in {"hwms", "sites"}
          THEN /\ result.kind = "GeoDataFrame"
               /\ Len(reprojections) = 1
               /\ result.geometry.crs =
                     (IF args.crs = None THEN 4326 ELSE args.crs[1])
          ELSE result = PlainTable /\ reprojections = <<>>

C11_Witness ==
    /\ TableReturned
    /\ op = "get_filtered_data"
    /\ args.data_type = "instruments"
    /\ args.crs = Some(3857)
    /\ result.kind = "GeoDataFrame"
    /\ result.geometry.crs = 3857
    /\ Len(resp) = 2

-----------------------------------------------------------------------------
(* Claims about NFHL.__init__ *)

NfhlServices ==
    {"NFHL", "Prelim_CSLF", "Draft_CSLF", "Prelim_NFHL", "Pending_NFHL", "Draft_NFHL"}

(* C12: a construction of NFHL whose service is not one of the six valid    *)
(* services raises InputValueError("service", the valid services) and never *)
(* initialises the map-service client; with a valid service the client is   *)
(* initialised exactly once, with that service's URL and with layer,        *)
(* outfields and crs as the caller gave them.                               *)
C12_NfhlConstruction ==
    op = "NFHL.__init__" =>
        IF args.service \notin NfhlServices
          THEN /\ pc = "raised"
               /\ err = [type |-> "InputValueError", inp |-> "service",
                         valid |-> NfhlServices]
               /\ requests = <<>>
          ELSE /\ pc \in {"awaiting", "returned"}
               /\ err = NoError
               /\ requests = <<[fn |-> "AGRBase.__init__",
                                url |-> Some(valid_services[args.service]),
                                layer |-> args.layer,
                                outfields |-> args.outfields,
                                crs |-> args.crs]>>

C12_Witness ==
    /\ op = "NFHL.__init__" /\ pc = "returned"
    /\ args.service = "Draft_NFHL"
    /\ args.crs = 3857
    /\ Len(requests) = 1
    /\ requests[1].url = Some("https://hazards.fema.gov/gis/nfhl/rest/services/AFHI/Draft_FIRM_DB/MapServer")
    /\ requests[1].layer = args.layer

-----------------------------------------------------------------------------
(* Claims about the carriage-return+newline normalisation *)

\* the rows as read and relabelled, before the definitions are normalised
RawRows == relabel(read_csv(resp)).rows

HasCRLF(s) == \E p \in 1..(Len(s) - 1) : s[p] = "CR" /\ s[p + 1] = "LF"

\* n is raw with each carriage-return+newline pair turned into two spaces,
\* position by position, and every other character kept
TwoSpacesForCRLF(raw, n) ==
    /\ Len(n) = Len(raw)
    /\ \A p \in 1..Len(raw) :
          n[p] = IF \/ (raw[p] = "CR" /\ p < Len(raw) /\ raw[p + 1] = "LF")
                    \/ (raw[p] = "LF" /\ p > 1 /\ raw[p - 1] = "CR")
                   THEN "SP" ELSE raw[p]

(* C13: every row the loop of data_dictionary scans holds its raw           *)
(* definition with each carriage-return+newline turned into exactly two     *)
(* spaces and nothing else changed; every output definition is, character   *)
(* by character, that normalisation of its raw definition followed by its   *)
(* raw continuations, and contains no carriage-return+newline.              *)
C13_CrlfNormalized ==
    (op = "data_dictionary" /\ pc = "returned") =>
        /\ Len(data) = Len(RawRows)
        /\ \A i \in 1..Len(data) :
              /\ data[i][1] = RawRows[i][1]
              /\ TwoSpacesForCRLF(RawRows[i][2], data[i][2])
        /\ \A i \in FieldRows(RawRows) :
              TwoSpacesForCRLF(RawRows[i][2] \o Continuations(RawRows, i + 1),
                               OutDefinition[EntryOf(RawRows, i)])
        /\ \A j \in 1..Len(OutDefinition) : ~HasCRLF(OutDefinition[j])

C13_Witness ==
    /\ op = "data_dictionary" /\ pc = "returned"
    /\ Len(RawRows) = 2
    /\ RawRows[1][2] = <<"b", "CR", "LF", "CR", "CR", "LF", "c">>
    /\ isna(RawRows[2][1])
    /\ RawRows[2][2] = <<"b", "CR", "LF", "CR", "CR", "LF", "c">>
    /\ OutDefinition = << <<"b", "SP", "SP", "CR", "SP", "SP", "c", "SP",
                            "b", "SP", "SP", "CR", "SP", "SP", "c">> >>

-----------------------------------------------------------------------------
(* Claims about the reprojection calls *)

-----------------------------------------------------------------------------
(* Claims about a dictionary text without header line *)

Headerless == Len(resp) >= 1 /\ resp[1].Field # <<"Field">>

(* C16: when the retrieved text has no Field,Definition header line, the    *)
(* rows the reconstruction scans are the lines of the text, as many and in  *)
(* the same positions: the first line is the first row and every following  *)
(* line is the row at its own position.                                     *)
C16_HeaderlessKeepsLines ==
    (DictionaryDone /\ requests # <<>> /\ Headerless) =>
        /\ Len(data) = Len(resp)
        /\ \A i \in 1..Len(resp) :
              data[i] = <<resp[i].Field, replace_crlf(resp[i].Definition)>>

=============================================================================
